---- MODULE Spec2Model ----
(***************************************************************************)
(* A model of specific_grep.cpp: main parses the -t option, the dispatcher *)
(* searchDirectoryForString enumerates the files, cuts the list into one   *)
(* slice per worker and launches one searchFilesForString per slice with   *)
(* std::async, collects the futures in launch order, and main then writes  *)
(* the results report, the log report and the console summary.             *)
(*                                                                         *)
(* Text is modelled as sequences of one-character strings (a line, the     *)
(* search string, the -t token), so that std::string::find and std::stoi   *)
(* are computed and not assumed.  File paths are the names of PathNames,   *)
(* ordered as std::map<std::string,...> orders them (PathRank).            *)
(***************************************************************************)
EXTENDS Integers, Sequences, FiniteSets, TLC

\* ------------------------------------------------------------- bounds
\* Files in the scanned directory tree: 0..MaxFiles.
MaxFiles == 3
\* Lines in one file: 0..MaxLines.
MaxLines == 2
\* Lines in the whole directory tree.
MaxTotalLines == 3
\* The largest valid -t value tried; also the size of the pool of thread ids.
MaxThreads == 2
\* Lines in the whole directory tree for the wider specification SpecWide.
WideTotalLines == 4

\* ------------------------------------------------------------- text
DigitChars == <<"0", "1", "2", "3", "4", "5", "6", "7", "8", "9">>

IsDigit(c) == \E k \in 1..Len(DigitChars) : DigitChars[k] = c

DigitVal(c) == (CHOOSE k \in 1..Len(DigitChars) : DigitChars[k] = c) - 1

IsSpace(c) == c = " "

RECURSIVE SkipSpace(_)
SkipSpace(s) == IF s # <<>> /\ IsSpace(Head(s)) THEN SkipSpace(Tail(s)) ELSE s

RECURSIVE DigitRun(_, _)
\* The value of the longest run of digits that starts s, after acc.
DigitRun(s, acc) ==
  IF s # <<>> /\ IsDigit(Head(s))
    THEN DigitRun(Tail(s), acc * 10 + DigitVal(Head(s)))
    ELSE acc

\* std::stoi: leading white space, an optional sign, then the longest run of
\* digits; what follows the digits is ignored; no digit at all throws
\* std::invalid_argument.  (The tokens of ThreadArgs are too short to overflow
\* an int, so std::out_of_range does not arise.)
stoi(tok) ==
  LET s    == SkipSpace(tok)
      neg  == s # <<>> /\ Head(s) = "-"
      body == IF s # <<>> /\ Head(s) \in {"-", "+"} THEN Tail(s) ELSE s
  IN  IF body = <<>> \/ ~IsDigit(Head(body))
        THEN [ok |-> FALSE, value |-> 0]
        ELSE [ok |-> TRUE,
              value |-> IF neg THEN 0 - DigitRun(body, 0) ELSE DigitRun(body, 0)]

\* std::string::find(search_string) != npos: some offset at which the whole
\* search string occurs; the empty string occurs at offset 0 of every line.
Find(line, s) ==
  \E off \in 0..(Len(line) - Len(s)) : SubSeq(line, off + 1, off + Len(s)) = s

\* ------------------------------------------------------------- inputs
PathNames == <<"f1", "f2", "f3", "f4", "f5", "f6">>

\* std::string's operator< on the paths, as std::map uses it ("" sorts first).
PathRank(p) == IF p = "" THEN 0 ELSE CHOOSE k \in 1..Len(PathNames) : PathNames[k] = p

Lines == {<<>>, <<"b", "a">>}

SearchStrings == {<<>>, <<"a">>}

\* The values given to -t: the valid counts, zero, a negative one, a word.
\* The option is always given: the default of 4 workers (main, thread_cnt = 4)
\* is only the value thread_cnt holds before the option is parsed.
ThreadArgs ==
  {<<DigitChars[n + 1]>> : n \in 0..MaxThreads}
    \cup {<<"-", "3">>, <<"a", "b", "c">>}

FileContents == UNION {[1..n -> Lines] : n \in 0..MaxLines}

\* A regular file: one that opens, with its lines, or one that does not.
ReadableFiles == [readable : {TRUE}, lines : FileContents]

FileSet == ReadableFiles \cup {[readable |-> FALSE, lines |-> <<>>]}

RECURSIVE TotalLines(_)
TotalLines(d) == IF d = <<>> THEN 0 ELSE Len(Head(d).lines) + TotalLines(Tail(d))

\* What recursive_directory_iterator can find: up to MaxFiles regular files
\* drawn from `files`, with at most `total` lines in all; the i-th file met has
\* path PathNames[i].
TreesOf(files, total) ==
  UNION {{d \in [1..n -> files] : TotalLines(d) <= total} : n \in 0..MaxFiles}

\* The trees of Spec and SpecRescan: every file opens.
Directories == TreesOf(ReadableFiles, MaxTotalLines)

\* The trees of SpecWide: more lines, and files that do not open.
WideDirectories == TreesOf(FileSet, WideTotalLines)

\* The values std::this_thread::get_id() can return in a worker.
ThreadIds == 1..MaxThreads

VARIABLES
  pc,              \* where main is
  thread_arg,      \* argv: the value of the -t option
  search_string,   \* argv[1]
  thread_cnt,      \* main's thread_cnt
  disk,            \* the directory tree, once enumerated: the files in iteration order
  files_to_search, \* searchDirectoryForString: the enumerated paths
  files_per_thread,
  futures,         \* one entry per launched worker, in launch order
  collected,       \* how many futures the collection loop has taken
  results,         \* the flat record list
  result_file,     \* the results report: whether written, and its lines
  log_file,        \* the log report: whether written, and its lines
  console,         \* the console summary: whether printed, and its counts
  exit_status,     \* "running", "0", "1" or "SIGFPE"
  scan,            \* which scan of the directory this is (1, 2)
  first_reports    \* the reports of the first scan, once a second has begun

vars ==
  <<pc, thread_arg, search_string, thread_cnt, disk, files_to_search,
    files_per_thread, futures, collected, results, result_file, log_file,
    console, exit_status, scan, first_reports>>

\* An output file that has not been written.
NoFile == [written |-> FALSE, lines |-> <<>>]

NoSummary == [printed |-> FALSE, searched |-> 0, files_with_pattern |-> 0, patterns |-> 0]

Init ==
  /\ pc = "main"
  /\ thread_arg \in ThreadArgs
  /\ search_string \in SearchStrings
  /\ thread_cnt = 4
  /\ disk = <<>>
  /\ files_to_search = <<>>
  /\ files_per_thread = 0
  /\ futures = <<>>
  /\ collected = 0
  /\ results = <<>>
  /\ result_file = NoFile
  /\ log_file = NoFile
  /\ console = NoSummary
  /\ exit_status = "running"
  /\ scan = 1
  /\ first_reports = [result_file |-> NoFile, log_file |-> NoFile]

\* ------------------------------------------------- searchFilesForString
Record(tid, path, n, line) ==
  [thread_id |-> tid, file_path |-> path, line_number |-> n, line_content |-> line]

\* results.emplace_back(thread_id, "", NULL, ""): the entry a worker without a
\* match returns.
Sentinel(tid) == Record(tid, "", 0, <<>>)

\* One file of a worker's slice: a file that cannot be opened gives nothing;
\* otherwise one record per line that contains the search string, the lines
\* counted from 1.
ScanFile(tid, path, file, s) ==
  IF file.readable
    THEN LET hits == SelectSeq([n \in 1..Len(file.lines) |-> n],
                               LAMBDA n : Find(file.lines[n], s))
         IN  [k \in 1..Len(hits) |-> Record(tid, path, hits[k], file.lines[hits[k]])]
    ELSE <<>>

RECURSIVE ScanFiles(_, _, _, _)
ScanFiles(tid, s, paths, d) ==
  IF paths = <<>>
    THEN <<>>
    ELSE ScanFile(tid, Head(paths), d[PathRank(Head(paths))], s)
           \o ScanFiles(tid, s, Tail(paths), d)

searchFilesForStringAlwaysSentinel(tid, s, files_subset, d) ==
  ScanFiles(tid, s, files_subset, d) \o <<Sentinel(tid)>>

searchFilesForString(tid, s, files_subset, d) ==
  LET found == ScanFiles(tid, s, files_subset, d)
  IN  IF found = <<>> THEN <<Sentinel(tid)>> ELSE found

\* ------------------------------------------------------------ std::sort
\* The three comparators handed to std::sort.
PatternLess(lhs, rhs) == lhs[1] < rhs[1]

FileLessAscending(lhs, rhs) == Len(lhs.patterns) < Len(rhs.patterns)

FileLess(lhs, rhs) == Len(lhs.patterns) > Len(rhs.patterns)

ThreadLess(lhs, rhs) ==
  IF lhs.files[1] = "" /\ rhs.files[1] # ""
    THEN FALSE
    ELSE IF lhs.files[1] # "" /\ rhs.files[1] = ""
      THEN TRUE
      ELSE Len(lhs.files) > Len(rhs.files)

comp(kind, lhs, rhs) ==
  CASE kind = "patterns" -> PatternLess(lhs, rhs)
    [] kind = "files"    -> FileLess(lhs, rhs)
    [] kind = "threads"  -> ThreadLess(lhs, rhs)

\* One step of the insertion sort std::sort runs on a range of at most 16
\* elements: an element less than the first goes to the front, any other moves
\* left past the elements it is less than.
LinearInsert(kind, sorted, x) ==
  IF sorted # <<>> /\ comp(kind, x, sorted[1])
    THEN <<x>> \o sorted
    ELSE LET at == CHOOSE j \in 0..Len(sorted) :
                     /\ \A m \in (j + 1)..Len(sorted) : comp(kind, x, sorted[m])
                     /\ j = 0 \/ ~comp(kind, x, sorted[j])
         IN  SubSeq(sorted, 1, at) \o <<x>> \o SubSeq(sorted, at + 1, Len(sorted))

RECURSIVE InsertionSort(_, _, _)
InsertionSort(kind, sorted, rest) ==
  IF rest = <<>>
    THEN sorted
    ELSE InsertionSort(kind, LinearInsert(kind, sorted, Head(rest)), Tail(rest))

sort(kind, range) == InsertionSort(kind, <<>>, range)

\* ------------------------------------------------------------- std::map
\* The order in which a std::map is iterated: ascending keys.
KeyRank(kind, k) == IF kind = "path" THEN PathRank(k) ELSE k

RECURSIVE KeysInOrder(_, _)
KeysInOrder(kind, keys) ==
  IF keys = {}
    THEN <<>>
    ELSE LET least == CHOOSE k \in keys :
                        \A o \in keys : KeyRank(kind, k) <= KeyRank(kind, o)
         IN  <<least>> \o KeysInOrder(kind, keys \ {least})

\* --------------------------------------------------- writeResultsToFile
\* The test a record passes to enter file_patterns_map.
KeepRecord(r) == r.file_path # "" /\ r.line_number # 0 /\ r.line_content # <<>>

\* file_patterns_map, as the sequence of its entries in key order; each
\* file's patterns are in the order the records were pushed.
FilePatternsMap(rs) ==
  LET kept == SelectSeq(rs, KeepRecord)
      keys == KeysInOrder("path", {kept[k].file_path : k \in 1..Len(kept)})
      of(p) == SelectSeq(kept, LAMBDA r : r.file_path = p)
  IN  [k \in 1..Len(keys) |->
         [file_path |-> keys[k],
          patterns  |-> [j \in 1..Len(of(keys[k])) |->
                           <<of(keys[k])[j].line_number,
                             of(keys[k])[j].line_content>>]]]

RECURSIVE ReportLines(_)
\* One line "<file_path>:<line_number>: <line_content>" per pattern.
ReportLines(sorted_files) ==
  IF sorted_files = <<>>
    THEN <<>>
    ELSE LET f == Head(sorted_files)
         IN  [j \in 1..Len(f.patterns) |->
                [file_path    |-> f.file_path,
                 line_number  |-> f.patterns[j][1],
                 line_content |-> f.patterns[j][2]]]
               \o ReportLines(Tail(sorted_files))

writeResultsToFile(rs) ==
  LET m == FilePatternsMap(rs)
      by_line == [k \in 1..Len(m) |->
                    [file_path |-> m[k].file_path,
                     patterns  |-> sort("patterns", m[k].patterns)]]
      sorted_files == sort("files", by_line)
  IN  ReportLines(sorted_files)

\* ------------------------------------------------------- writeLogToFile
\* threads_to_files, as the sequence of its entries in key order: under each
\* thread id, the file_path of every record that carries it, sentinels too.
ThreadsToFiles(rs) ==
  LET keys == KeysInOrder("thread", {rs[k].thread_id : k \in 1..Len(rs)})
      of(t) == SelectSeq(rs, LAMBDA r : r.thread_id = t)
  IN  [k \in 1..Len(keys) |->
         [thread_id |-> keys[k],
          files     |-> [j \in 1..Len(of(keys[k])) |-> of(keys[k])[j].file_path]]]

RECURSIVE WriteNames(_)
\* output_file << file_name << "," for each name; an empty name writes no
\* character of its own.
WriteNames(names) ==
  IF names = <<>>
    THEN <<>>
    ELSE (IF Head(names) = "" THEN <<>> ELSE <<Head(names)>>)
           \o <<",">> \o WriteNames(Tail(names))

\* What follows "<thread_id>:" on a line: the names and commas, then
\* seekp(-1, end) and std::endl overwrite the last character written.
LogText(names) ==
  LET written == WriteNames(names)
  IN  SubSeq(written, 1, Len(written) - 1) \o <<"\n">>

writeLogToFile(rs) ==
  LET thread_file_pairs == sort("threads", ThreadsToFiles(rs))
  IN  [k \in 1..Len(thread_file_pairs) |->
         [thread_id |-> thread_file_pairs[k].thread_id,
          text      |-> LogText(thread_file_pairs[k].files)]]

\* --------------------------------------------------- printSearchResults
printSearchResults(rs, searched) ==
  LET hits == {rs[k] : k \in {j \in 1..Len(rs) : rs[j].line_number # 0}}
  IN  [printed            |-> TRUE,
       searched           |-> searched,
       files_with_pattern |-> Cardinality({r.file_path : r \in hits}),
       patterns           |-> Cardinality({<<r.file_path, r.line_number>> : r \in hits})]

\* ------------------------------------------------------------- actions
\* size_t / int: the int is converted to size_t first, so a negative
\* thread_count becomes a divisor of at least 2^63, larger than any file
\* count, and the quotient is 0.  (Division by zero is handled by the caller.)
FilesPerThread(size, thread_count) ==
  IF thread_count > 0 THEN size \div thread_count ELSE 0

\* start_index of worker i (counted from 0).
StartIndex(i, per_thread) == i * per_thread

EndIndexNoRemainder(i, per_thread, thread_count, size) == (i + 1) * per_thread

\* end_index of worker i: the last worker takes the list to its end.
EndIndex(i, per_thread, thread_count, size) ==
  IF i + 1 = thread_count THEN size ELSE (i + 1) * per_thread

\* files_subset(begin() + start_index, begin() + end_index)
FilesSubset(files, i, per_thread, thread_count) ==
  SubSeq(files, StartIndex(i, per_thread) + 1,
         EndIndex(i, per_thread, thread_count, Len(files)))

\* The ids of the threads that are executing a worker now.  A thread that has
\* returned from its worker is back with the runtime (ended, or returned to
\* the pool std::async draws from), and the runtime may hand its id out again.
IdsInUse(fs) == {fs[k].thread_id : k \in {j \in 1..Len(fs) : fs[j].state = "running"}}

\* main, the -t option: std::stoi, and the catch of std::invalid_argument.
ParseThreads ==
  /\ pc = "main"
  /\ LET parsed == stoi(thread_arg)
     IN  IF parsed.ok
           THEN /\ thread_cnt' = parsed.value
                /\ pc' = "search"
                /\ UNCHANGED exit_status
           ELSE /\ exit_status' = "1"
                /\ pc' = "exit"
                /\ UNCHANGED thread_cnt
  /\ UNCHANGED <<thread_arg, search_string, disk, files_to_search,
                 files_per_thread, futures, collected, results, result_file,
                 log_file, console, scan, first_reports>>

\* searchDirectoryForString up to its launch loop: the directory walk and
\* files_per_thread.  The second scan finds the directory unchanged.  With no
\* worker to launch (thread_count <= 0) both loops are skipped and the empty
\* result is returned.
EnumerateFrom(trees) ==
  /\ pc = "search"
  /\ thread_cnt # 0
  /\ \E d \in (IF scan = 2 THEN {disk} ELSE trees) :
       /\ disk' = d
       /\ files_to_search' = [k \in 1..Len(d) |-> PathNames[k]]
       /\ files_per_thread' = FilesPerThread(Len(d), thread_cnt)
  /\ pc' = IF thread_cnt > 0 THEN "launch" ELSE "write_results"
  /\ futures' = <<>>
  /\ collected' = 0
  /\ results' = <<>>
  /\ UNCHANGED <<thread_arg, search_string, thread_cnt, result_file, log_file,
                 console, exit_status, scan, first_reports>>

\* The same with thread_count = 0: size() / 0 is undefined.  The builds either
\* trap (x86: SIGFPE ends the process) or yield some quotient (ARM: 0), which
\* is never used because no worker is launched.
EnumerateZeroFrom(trees) ==
  /\ pc = "search"
  /\ thread_cnt = 0
  /\ \E d \in (IF scan = 2 THEN {disk} ELSE trees) :
       /\ disk' = d
       /\ files_to_search' = [k \in 1..Len(d) |-> PathNames[k]]
  /\ \/ /\ exit_status' = "SIGFPE"
        /\ pc' = "exit"
     \/ /\ pc' = "write_results"
        /\ UNCHANGED exit_status
  /\ files_per_thread' = 0
  /\ futures' = <<>>
  /\ collected' = 0
  /\ results' = <<>>
  /\ UNCHANGED <<thread_arg, search_string, thread_cnt, result_file, log_file,
                 console, scan, first_reports>>

Enumerate == EnumerateFrom(Directories)

EnumerateZero == EnumerateZeroFrom(Directories)

EnumerateWide == EnumerateFrom(WideDirectories)

EnumerateZeroWide == EnumerateZeroFrom(WideDirectories)

\* One turn of the launch loop: worker i = Len(futures) gets its slice and a
\* thread, whose id no thread executing a worker holds.
Launch ==
  /\ pc = "launch"
  /\ Len(futures) < thread_cnt
  /\ \E tid \in ThreadIds \ IdsInUse(futures) :
       futures' = Append(futures,
                    [thread_id    |-> tid,
                     files_subset |-> FilesSubset(files_to_search, Len(futures),
                                                  files_per_thread, thread_cnt),
                     state        |-> "running",
                     result       |-> <<>>])
  /\ pc' = IF Len(futures) + 1 = thread_cnt THEN "collect" ELSE "launch"
  /\ UNCHANGED <<thread_arg, search_string, thread_cnt, disk, files_to_search,
                 files_per_thread, collected, results, result_file, log_file,
                 console, exit_status, scan, first_reports>>

\* A worker runs searchFilesForString on its slice and its thread ends.
Worker(w) ==
  /\ futures[w].state = "running"
  /\ futures' = [futures EXCEPT
       ![w].state  = "done",
       ![w].result = searchFilesForString(futures[w].thread_id, search_string,
                                          futures[w].files_subset, disk)]
  /\ UNCHANGED <<pc, thread_arg, search_string, thread_cnt, disk, files_to_search,
                 files_per_thread, collected, results, result_file, log_file,
                 console, exit_status, scan, first_reports>>

InsertAtBegin(rs, result) == result \o rs

\* results.insert(results.end(), result.begin(), result.end())
InsertAtEnd(rs, result) == rs \o result

\* One turn of the collection loop: future.get() blocks until that worker is
\* done, and its records go to the end of results.  After the last future the
\* function returns.
Collect ==
  /\ pc = "collect"
  /\ collected < Len(futures)
  /\ futures[collected + 1].state = "done"
  /\ results' = InsertAtEnd(results, futures[collected + 1].result)
  /\ collected' = collected + 1
  /\ pc' = IF collected + 1 = Len(futures) THEN "write_results" ELSE "collect"
  /\ UNCHANGED <<thread_arg, search_string, thread_cnt, disk, files_to_search,
                 files_per_thread, futures, result_file, log_file, console,
                 exit_status, scan, first_reports>>

WriteResults ==
  /\ pc = "write_results"
  /\ result_file' = [written |-> TRUE, lines |-> writeResultsToFile(results)]
  /\ pc' = "write_log"
  /\ UNCHANGED <<thread_arg, search_string, thread_cnt, disk, files_to_search,
                 files_per_thread, futures, collected, results, log_file,
                 console, exit_status, scan, first_reports>>

WriteLog ==
  /\ pc = "write_log"
  /\ log_file' = [written |-> TRUE, lines |-> writeLogToFile(results)]
  /\ pc' = "print"
  /\ UNCHANGED <<thread_arg, search_string, thread_cnt, disk, files_to_search,
                 files_per_thread, futures, collected, results, result_file,
                 console, exit_status, scan, first_reports>>

PrintSearchResults ==
  /\ pc = "print"
  /\ console' = printSearchResults(results, Len(files_to_search))
  /\ exit_status' = "0"
  /\ pc' = "exit"
  /\ UNCHANGED <<thread_arg, search_string, thread_cnt, disk, files_to_search,
                 files_per_thread, futures, collected, results, result_file,
                 log_file, scan, first_reports>>

\* The program is run again with the same arguments on the same directory;
\* the reports of the first scan are kept aside for comparison.
Rescan ==
  /\ pc = "exit"
  /\ exit_status = "0"
  /\ scan = 1
  /\ scan' = 2
  /\ first_reports' = [result_file |-> result_file, log_file |-> log_file]
  /\ pc' = "main"
  /\ thread_cnt' = 4
  /\ exit_status' = "running"
  /\ console' = NoSummary
  /\ UNCHANGED <<thread_arg, search_string, disk, files_to_search,
                 files_per_thread, futures, collected, results, result_file,
                 log_file>>

Next ==
  \/ ParseThreads
  \/ Enumerate
  \/ EnumerateZero
  \/ Launch
  \/ \E w \in 1..Len(futures) : Worker(w)
  \/ Collect
  \/ WriteResults
  \/ WriteLog
  \/ PrintSearchResults

Spec == Init /\ [][Next]_vars

NextRescan == Next \/ Rescan

SpecRescan == Init /\ [][NextRescan]_vars

\* The same program on the wider set of directory trees.
NextWide ==
  \/ ParseThreads
  \/ EnumerateWide
  \/ EnumerateZeroWide
  \/ Launch
  \/ \E w \in 1..Len(futures) : Worker(w)
  \/ Collect
  \/ WriteResults
  \/ WriteLog
  \/ PrintSearchResults

SpecWide == Init /\ [][NextWide]_vars

\* ------------------------------------------------------------- claims
\* The slices of the workers launched so far, one after the other.
RECURSIVE SlicesInOrder(_)
SlicesInOrder(fs) ==
  IF fs = <<>> THEN <<>> ELSE Head(fs).files_subset \o SlicesInOrder(Tail(fs))

\* C1: for T >= 1 workers and F files, every worker before the last holds
\* exactly F div T files, the last holds F div T + F mod T, and once all T are
\* launched the slices, concatenated in worker order, are the enumerated list
\* (so no file is missing and none is in two slices).
C1_PartitionCoverage ==
  (thread_cnt >= 1 /\ pc \in {"launch", "collect"}) =>
    LET F == Len(files_to_search)
        T == thread_cnt
    IN  /\ \A k \in 1..Len(futures) :
             Len(futures[k].files_subset) =
               IF k < T THEN F \div T ELSE (F \div T) + (F % T)
        /\ Len(futures) = T => SlicesInOrder(futures) = files_to_search

\* Three files cut for two workers: one file, then two.
C1_Witness ==
  /\ pc = "collect"
  /\ thread_cnt = 2
  /\ files_to_search = <<"f1", "f2", "f3">>
  /\ futures[1].files_subset = <<"f1">>
  /\ futures[2].files_subset = <<"f2", "f3">>

\* The values of -t the claim of C2 is about.
InvalidThreadArgs == {<<"0">>, <<"-", "3">>, <<"a", "b", "c">>}

\* C2: with -t 0, a negative -t or a non-numeric -t, neither report is ever
\* written and the program ends with exit status 1.
C2_InvalidThreadCountExits ==
  thread_arg \in InvalidThreadArgs =>
    /\ ~result_file.written
    /\ ~log_file.written
    /\ pc = "exit" => exit_status = "1"

\* C3: the workers of one scan carry pairwise distinct worker ids, and the log
\* report has one line per worker.
C3_DistinctWorkerIds ==
  /\ \A j, k \in 1..Len(futures) :
       j # k => futures[j].thread_id # futures[k].thread_id
  /\ (log_file.written /\ thread_cnt >= 1) => Len(log_file.lines) = thread_cnt

IsSentinel(r) == r.file_path = "" /\ r.line_number = 0 /\ r.line_content = <<>>

\* The (file, line number) pairs of a slice whose line contains the search
\* string, in the files that can be opened.
MatchesIn(paths) ==
  UNION {{<<paths[k], n>> :
            n \in {m \in 1..Len(disk[PathRank(paths[k])].lines) :
                     /\ disk[PathRank(paths[k])].readable
                     /\ Find(disk[PathRank(paths[k])].lines[m], search_string)}}
         : k \in 1..Len(paths)}

\* The file names written on a line of the log report.
NamesOn(text) == SelectSeq(text, LAMBDA t : t \notin {",", "\n"})

Range(seq) == {seq[k] : k \in 1..Len(seq)}

\* C4: a worker that is done and whose slice holds no matching line returned
\* the sentinel alone; one whose slice holds a match returned no sentinel; no
\* line of the results report comes from a sentinel, and a worker's line of the
\* log report holds one file name per real record of that worker id, never an
\* empty name.
C4_SentinelExclusivity ==
  /\ \A k \in 1..Len(futures) :
       futures[k].state = "done" =>
         LET r == futures[k].result
         IN  IF MatchesIn(futures[k].files_subset) = {}
               THEN r = <<[thread_id    |-> futures[k].thread_id,
                           file_path    |-> "",
                           line_number  |-> 0,
                           line_content |-> <<>>]>>
               ELSE \A i \in 1..Len(r) :
                      r[i].file_path # "" /\ r[i].line_number >= 1
  /\ result_file.written =>
       \A i \in 1..Len(result_file.lines) :
         /\ result_file.lines[i].file_path # ""
         /\ result_file.lines[i].line_number # 0
  /\ log_file.written =>
       \A i \in 1..Len(log_file.lines) :
         LET names == NamesOn(log_file.lines[i].text)
         IN  /\ "" \notin Range(names)
             /\ Len(names) =
                  Cardinality({j \in 1..Len(results) :
                                 /\ results[j].thread_id = log_file.lines[i].thread_id
                                 /\ ~IsSentinel(results[j])})

\* Two workers, the first with a file but no match, the second with a match;
\* both reports are written and the first worker's log line is bare.
C4_Witness ==
  /\ pc = "exit"
  /\ exit_status = "0"
  /\ thread_cnt = 2
  /\ futures[1].files_subset # <<>>
  /\ futures[1].result = <<Sentinel(futures[1].thread_id)>>
  /\ futures[1].thread_id # futures[2].thread_id
  /\ ~IsSentinel(futures[2].result[1])
  /\ Len(log_file.lines) = 2
  /\ log_file.lines[2].thread_id = futures[1].thread_id
  /\ log_file.lines[2].text = <<"\n">>
  /\ result_file.lines # <<>>

C6_ReportCoversRecords ==
  thread_cnt >= 1 =>
    /\ result_file.written =>
         /\ {<<l.file_path, l.line_number, l.line_content>> : l \in Range(result_file.lines)}
              = {<<r.file_path, r.line_number, r.line_content>> :
                   r \in {x \in Range(results) : ~IsSentinel(x)}}
         /\ {<<l.file_path, l.line_number>> : l \in Range(result_file.lines)}
              = MatchesIn(files_to_search)
         /\ Len(result_file.lines) = Cardinality(MatchesIn(files_to_search))
    /\ console.printed => Len(result_file.lines) = console.patterns

\* C7: the second scan of the unchanged directory ends with the same results
\* report and, the thread ids apart, the same log report line by line.
C7_ScanIsRepeatable ==
  (scan = 2 /\ pc = "exit" /\ exit_status = "0") =>
    /\ result_file = first_reports.result_file
    /\ Len(log_file.lines) = Len(first_reports.log_file.lines)
    /\ \A k \in 1..Len(log_file.lines) :
         k <= Len(first_reports.log_file.lines) =>
           log_file.lines[k].text = first_reports.log_file.lines[k].text

\* The same for the scans in which every worker had a thread id of its own.
C7_RepeatableWithDistinctIds ==
  (/\ scan = 2 /\ pc = "exit" /\ exit_status = "0"
   /\ Len(log_file.lines) = thread_cnt
   /\ Len(first_reports.log_file.lines) = thread_cnt) =>
    \A k \in 1..Len(log_file.lines) :
      log_file.lines[k].text = first_reports.log_file.lines[k].text

\* C8: in the log report no line with file names follows a line without, and
\* the lines with file names come in non-increasing order of the number of
\* files named (files, not matching lines).
C8_LogOrder ==
  log_file.written =>
    \A i, j \in 1..Len(log_file.lines) :
      i < j =>
        LET a == NamesOn(log_file.lines[i].text)
            b == NamesOn(log_file.lines[j].text)
        IN  /\ a = <<>> => b = <<>>
            /\ (a # <<>> /\ b # <<>>) =>
                 Cardinality(Range(a)) >= Cardinality(Range(b))

\* C9: every worker has a line in the log report that names exactly the files
\* of its slice.
C9_LogListsPartition ==
  log_file.written =>
    \A k \in 1..Len(futures) :
      \E i \in 1..Len(log_file.lines) :
        /\ log_file.lines[i].thread_id = futures[k].thread_id
        /\ Range(NamesOn(log_file.lines[i].text)) = Range(futures[k].files_subset)

RECURSIVE ResultsInOrder(_)
\* The record lists of the workers, in worker-index order.
ResultsInOrder(fs) ==
  IF fs = <<>> THEN <<>> ELSE Head(fs).result \o ResultsInOrder(Tail(fs))

PositionIn(paths, p) == CHOOSE k \in 1..Len(paths) : paths[k] = p

\* C10: no report is written, and the dispatcher has not returned, before all
\* T workers are done; what it returns is the workers' record lists one after
\* the other in worker-index order; and each worker's list is in the order of
\* its slice's files, then ascending line number.
C10_JoinThenConcatenate ==
  /\ (thread_cnt >= 1 /\ pc \in {"main", "search", "launch", "collect"}) =>
       ~result_file.written /\ ~log_file.written
  /\ (thread_cnt >= 1 /\ pc \in {"write_results", "write_log", "print"}) =>
       /\ Len(futures) = thread_cnt
       /\ \A k \in 1..Len(futures) : futures[k].state = "done"
       /\ results = ResultsInOrder(futures)
  /\ \A k \in 1..Len(futures) :
       LET r == futures[k].result
           at(i) == PositionIn(futures[k].files_subset, r[i].file_path)
       IN  \A i \in 1..(Len(r) - 1) :
             \/ at(i) < at(i + 1)
             \/ at(i) = at(i + 1) /\ r[i].line_number < r[i + 1].line_number

\* Two workers with matches, the first with two of them: the dispatcher has
\* returned the first worker's records and then the second's.
C10_Witness ==
  /\ pc = "write_results"
  /\ thread_cnt = 2
  /\ Len(futures[1].result) = 2
  /\ ~IsSentinel(futures[1].result[1])
  /\ ~IsSentinel(futures[2].result[1])
  /\ Len(results) = 3
  /\ results[3] = futures[2].result[1]

====
